---- MODULE Spec2Model ----
(***************************************************************************)
(* Render job pipeline of reelestate-worker: the render_jobs table, the    *)
(* worker polling loop (src/worker.js), and the HeyGen webhook handler of  *)
(* the API service in the iterations the repository carries                *)
(* (src/reelestate-api/api.js, src/unnamed/part_002, src/unnamed/part_000, *)
(* src/server.js).  Every await on the job store or on an external service *)
(* is one atomic step; the statements between two awaits belong to the     *)
(* step that precedes them.                                                *)
(***************************************************************************)
EXTENDS Integers, Sequences, FiniteSets, TLC

(* ------------------------------ bounds --------------------------------- *)
MaxJobs == 1
NumWorkers == 2
NumHooks == 2
CountCap == 2

(* ----------------------------- constants ------------------------------- *)
FETCH_RETRIES == 3
SECRET == "s3cret"
Tokens == {"", SECRET, "wrong"}
Secrets == {"", SECRET}
ApiVersions == {"api", "p002", "p000b", "srvB"}
\* the worker iterations: worker.js (first and second), part_006
WorkerVersions == {"v1", "v2", "p006"}
Emails == {"", "agent@example.com"}
WALK_URL == "https://cdn.example.com/walk.mp4"
EventTypes == {"avatar_video.success", "avatar_video_gif.success", ""}
\* payload.data.status || payload.status of server.js (first server)
PayloadStatuses == {"completed", "processing", ""}
MONO_NO_URL_ERROR == "HeyGen callback missing video_url. Your account may not include video_url in callback payload."
MONO_FFMPEG_ERROR == "Error: FFmpeg exited with code 1"
MONO_LOAD_ERROR == "[object Object]"

Workers == 1..NumWorkers
Hooks == 1..NumHooks

VideoUrl(v) == "https://files.heygen.ai/v" \o ToString(v) \o ".mp4"
PublicUrl(j) == "https://storage/videos/renders/final-" \o ToString(j) \o ".mp4"
VideoIds == 1..MaxJobs
\* the jobs of the scenarios with a second job behind the first
LoopJobs == MaxJobs + 1
UrlInputs == {""} \cup {VideoUrl(v) : v \in VideoIds}

Min(a, b) == IF a < b THEN a ELSE b

\* failJob() keeps the first ERR_MAX characters of the message
ERR_MAX == 2000
RECURSIVE Doubled(_, _)
Doubled(s, n) == IF n = 0 THEN s ELSE Doubled(s \o s, n - 1)
\* a download error carries the whole (signed) URL: longer than ERR_MAX
LONG_ERROR == "Download failed: 403 (" \o Doubled("a", 11) \o ")"
\* the messages of the exceptions Phase 1 raises after the claim
ScriptErrors == {"Empty transcript from Whisper", LONG_ERROR}
HeygenErrors == {"HeyGen generate failed (500)"}
EMAIL_ERROR == "email send failed"
FFMPEG_ERROR == "FFmpeg failed (1)"
\* String.prototype.slice(0, n)
Slice(s, n) == IF Len(s) > n THEN SubSeq(s, 1, n) ELSE s

VARIABLES cfg, jobs, provider, workers, hooks, http, hist, call, storage
vars == <<cfg, jobs, provider, workers, hooks, http, hist, call, storage>>

\* no helper call (download, background normalization) under observation
NoCall ==
  [fn |-> "none", pc |-> "idle", retries |-> 0, attempt |-> 0, maxBytes |-> 0,
   chunks |-> <<>>, downloaded |-> 0, written |-> 0, err |-> ""]

(* ----------------------------- job store ------------------------------- *)
NewRow(url, maxSeconds, avatarType, email) ==
  [status |-> "queued", walkthrough_url |-> url, max_seconds |-> maxSeconds,
   avatar_type |-> avatarType, email |-> email,
   heygen_video_id |-> 0, heygen_video_url |-> "",
   final_public_url |-> "", error |-> ""]

\* the columns processQueued/processRendering read from the locked row
Locked(row) ==
  [walkthrough_url |-> row.walkthrough_url, max_seconds |-> row.max_seconds,
   avatar_type |-> row.avatar_type, email |-> row.email,
   heygen_video_url |-> row.heygen_video_url]

NoRow == Locked(NewRow("", 0, "", ""))

JobIds == 1..Len(jobs)

\* an update that resets the columns it does not name
ReplaceRow(row, fields) ==
  [k \in DOMAIN row |-> IF k \in DOMAIN fields THEN fields[k] ELSE NewRow("", 0, "", "")[k]]

\* .update(fields).eq("id", id): rewrites the row when it exists, else nothing
SetFields(row, fields) ==
  [k \in DOMAIN row |-> IF k \in DOMAIN fields THEN fields[k] ELSE row[k]]

UpdateById(tbl, id, fields) ==
  [j \in DOMAIN tbl |-> IF j = id THEN SetFields(tbl[j], fields) ELSE tbl[j]]

\* the update without .eq("status", expected)
ClaimIgnoresStatus(tbl, id, expected) == id \in DOMAIN tbl

\* .eq("id", id).eq("status", expected): the conditional update decides on the
\* row's status at the moment of the write
ClaimHolds(tbl, id, expected) ==
  id \in DOMAIN tbl /\ tbl[id].status = expected

\* .select("*").eq("status", s).order("created_at").limit(1)
Oldest(tbl, s) ==
  LET c == {j \in DOMAIN tbl : tbl[j].status = s}
  IN IF c = {} THEN 0 ELSE CHOOSE j \in c : \A k \in c : j <= k

\* the rows a .limit(1) query may return: the oldest one with
\* .order("created_at"), any one without it (part_006)
Selected(tbl, s, ordered) ==
  IF ordered THEN {Oldest(tbl, s)} \ {0}
  ELSE {j \in DOMAIN tbl : tbl[j].status = s}

StartsWithHttp(u) == Len(u) >= 4 /\ SubSeq(u, 1, 4) = "http"

(* ------------------------- history (observers) ------------------------- *)
Bump(f, j) == [f EXCEPT ![j] = Min(@ + 1, CountCap)]
NoteArm(h, old, new) ==
  [h EXCEPT !.arms = [j \in DOMAIN @ |->
     IF j \in DOMAIN old /\ old[j].status # "rendering" /\ new[j].status = "rendering"
     THEN Min(@[j] + 1, CountCap) ELSE @[j]]]

(* ------------------------------- Init ---------------------------------- *)
IdleWorker == [pc |-> "poll", job |-> 0, locked |-> NoRow, vid |-> 0,
               url |-> "", err |-> "", out |-> "none", files |-> {}, sent |-> 0]
IdleHook == [pc |-> "idle", token |-> "", jobId |-> 0, eventType |-> "",
             status |-> "", videoId |-> 0, videoUrl |-> "", resp |-> "",
             late |-> FALSE]
\* the API service of reelestate-api/api.js, with and without a webhook secret
Configs == [api : {"api"}, secret : Secrets, wk : {"v1"}]
\* the earlier servers; server.js reads no secret
LegacyConfigs == {c \in [api : ApiVersions \ {"api"}, secret : Secrets, wk : {"v1"}] :
                    c.api = "srvB" => c.secret = SECRET}

Start(configs) ==
  /\ cfg \in configs
  /\ jobs = <<>>
  /\ provider = <<>>
  /\ workers = [w \in Workers |-> IdleWorker]
  /\ hooks = [h \in Hooks |-> IdleHook]
  /\ http = ""
  /\ storage = {}
  /\ call = NoCall
  /\ hist = [qwins |-> [j \in 1..LoopJobs |-> 0],
             rwins |-> [j \in 1..LoopJobs |-> 0],
             arms |-> [j \in 1..LoopJobs |-> 0]]

Init == Start(Configs)
InitLegacy == Start(LegacyConfigs)

(* ------------------------------ intake --------------------------------- *)
\* POST /compose-walkthrough: api.js and part_000 require an email, part_002 and
\* server.js (second server) insert the row without one
EmailRequired == cfg.api \in {"api", "p000b"}

CreateJob(email) ==
  /\ Len(jobs) < MaxJobs
  /\ (email # "") <=> EmailRequired
  /\ jobs' = Append(jobs, NewRow(WALK_URL, 20, "female", email))
  /\ UNCHANGED <<cfg, call, storage, provider, workers, hooks, http, hist>>

(* ------------------------- worker loop (worker.js) --------------------- *)
Step(w, rec) == workers' = [workers EXCEPT ![w] = rec]
Goto(w, pc) == Step(w, [workers[w] EXCEPT !.pc = pc])
\* an exception leaves the phase: only the job of the cycle and the error
\* reach loop()'s catch
Throw(w, msg) ==
  Step(w, [IdleWorker EXCEPT !.pc = "fail", !.job = workers[w].job, !.err = msg,
                             !.files = workers[w].files])
\* the phase returns: the cycle ends in sleep(POLL_MS)
Finish(w, out) ==
  Step(w, [IdleWorker EXCEPT !.pc = "sleep", !.job = workers[w].job, !.out = out,
                             !.files = workers[w].files])

\* loop(): select the oldest queued job; a query error ends the cycle.
\* part_006 has no .order and does not look at the error: a failed query
\* counts as no queued job
QueryQueued(w) ==
  /\ workers[w].pc = "poll"
  /\ \/ Finish(w, "loopError")
     \/ \E j \in Selected(jobs, "queued", cfg.wk # "p006") :
          Step(w, [workers[w] EXCEPT !.pc = "claimQ", !.job = j])
     \/ /\ Oldest(jobs, "queued") = 0 \/ cfg.wk = "p006"
        /\ Goto(w, "pollR")
  /\ UNCHANGED <<cfg, call, storage, jobs, provider, hooks, http, hist>>

\* a processQueued that treats a lock that matched no row as an error
ClaimQueuedLoserThrows(w) ==
  LET j == workers[w].job
      row == [jobs[j] EXCEPT !.status = "processing"] IN
  /\ workers[w].pc = "claimQ"
  /\ \/ /\ Throw(w, "lock failed")
        /\ UNCHANGED <<jobs, hist>>
     \/ /\ ClaimHolds(jobs, j, "queued")
        /\ jobs' = [jobs EXCEPT ![j] = row]
        /\ Step(w, [workers[w] EXCEPT !.pc = "script", !.locked = Locked(row)])
        /\ hist' = [hist EXCEPT !.qwins = Bump(@, j)]
     \/ /\ ~ClaimHolds(jobs, j, "queued")
        /\ Throw(w, "job not claimed")
        /\ UNCHANGED <<jobs, hist>>
  /\ UNCHANGED <<cfg, call, storage, provider, hooks, http>>

\* processQueued(): the lock, queued -> processing; part_006 does not look at
\* the lock's error
ClaimQueued(w) ==
  LET j == workers[w].job
      row == [jobs[j] EXCEPT !.status = "processing"] IN
  /\ workers[w].pc = "claimQ"
  /\ \/ /\ IF cfg.wk = "p006" THEN Finish(w, "lost") ELSE Throw(w, "lock failed")
        /\ UNCHANGED <<jobs, hist>>
     \/ /\ ClaimHolds(jobs, j, "queued")
        /\ jobs' = [jobs EXCEPT ![j] = row]
        /\ Step(w, [workers[w] EXCEPT !.pc = "script", !.locked = Locked(row)])
        /\ hist' = [hist EXCEPT !.qwins = Bump(@, j)]
     \/ /\ ~ClaimHolds(jobs, j, "queued")
        /\ Finish(w, "lost")
        /\ UNCHANGED <<jobs, hist>>
  /\ UNCHANGED <<cfg, call, storage, provider, hooks, http>>

\* the scratch files of generateAvatarScriptFromWalkthrough() in /tmp, and
\* those on disk when it fails at the download, at the audio extraction, or later
ScriptFiles == {"walk", "audio"}
ScriptFailFiles == {{}, {"walk"}, {"walk", "audio"}}

\* generateAvatarScriptFromWalkthrough(), the try block: download, audio,
\* Whisper, rewrite; in the later worker the same steps open processQueued()'s
\* try block, which goes on to the provider request with the files on disk
GenerateScript(w) ==
  /\ workers[w].pc = "script"
  /\ \/ Step(w, [workers[w] EXCEPT !.pc = IF cfg.wk = "v2" THEN "heygen" ELSE "scriptEnd",
                                   !.files = ScriptFiles])
     \/ \E msg \in ScriptErrors, f \in ScriptFailFiles :
          Step(w, [workers[w] EXCEPT !.pc = "scriptEnd", !.files = f, !.err = msg])
  /\ UNCHANGED <<cfg, call, storage, jobs, provider, hooks, http, hist>>

\* generateAvatarScriptFromWalkthrough(), the finally block: both files are
\* unlinked, then the function returns or its error goes on to loop()'s catch;
\* in the later worker the finally block of processQueued(), after the save
ScriptFinally(w) ==
  LET rec == [workers[w] EXCEPT !.files = @ \ ScriptFiles] IN
  /\ workers[w].pc = "scriptEnd"
  /\ IF rec.err # ""
     THEN Step(w, [IdleWorker EXCEPT !.pc = "fail", !.job = rec.job, !.err = rec.err,
                                     !.files = rec.files])
     ELSE IF cfg.wk = "v2"
     THEN Step(w, [IdleWorker EXCEPT !.pc = "sleep", !.job = rec.job, !.out = "ran",
                                     !.files = rec.files])
     ELSE Step(w, [rec EXCEPT !.pc = "heygen"])
  /\ UNCHANGED <<cfg, call, storage, jobs, provider, hooks, http, hist>>

\* createHeygenVideo(): one POST through fetchWithTimeout; the provider
\* registers the request and returns its id, or the call throws.
\* createHeygenVideoFromText(): the POST goes through fetchRetry, which sends
\* it again after every attempt that ends in a transport error or a timeout.
\* sent counts the POSTs of this Phase 1
CreateHeygenVideo(w) ==
  /\ workers[w].pc = "heygen"
  /\ \E n \in 1..(IF cfg.wk = "v2" THEN FETCH_RETRIES ELSE 1) :
       LET rec == [workers[w] EXCEPT !.sent = n] IN
       \/ /\ provider' = Append(provider, [job |-> rec.job, done |-> FALSE])
          /\ Step(w, [rec EXCEPT !.pc = "saveQ", !.vid = Len(provider) + 1])
       \/ /\ \E msg \in HeygenErrors :
               IF cfg.wk = "v2"
               THEN Step(w, [rec EXCEPT !.pc = "scriptEnd", !.err = msg])
               ELSE Throw(w, msg)
          /\ UNCHANGED provider
  /\ UNCHANGED <<cfg, call, storage, jobs, hooks, http, hist>>

\* processQueued(): the save, status heygen_requested with heygen_video_id;
\* part_006 does not look at the update's error; the later worker saves with
\* updateJobSafe(), which throws when its second update fails too, inside the
\* try block
SaveRequested(w) ==
  LET j == workers[w].job
      upd == [status |-> "heygen_requested", heygen_video_id |-> workers[w].vid] IN
  /\ workers[w].pc = "saveQ"
  /\ \/ /\ jobs' = UpdateById(jobs, j, upd)
        /\ IF cfg.wk = "v2" THEN Goto(w, "scriptEnd") ELSE Finish(w, "ran")
     \/ /\ CASE cfg.wk = "p006" -> Finish(w, "ran")
               [] cfg.wk = "v2" ->
                    Step(w, [workers[w] EXCEPT !.pc = "scriptEnd", !.err = "update failed"])
               [] OTHER -> Throw(w, "update failed")
        /\ UNCHANGED jobs
  /\ UNCHANGED <<cfg, call, storage, provider, hooks, http, hist>>

\* failJob(): called from loop()'s catch around processQueued/processRendering
FailJobNoSlice(msg) == [status |-> "failed", error |-> msg]
\* .update({ status: "failed", error: msg.slice(0, 2000) })
FailJobUpdate(msg) == [status |-> "failed", error |-> Slice(msg, ERR_MAX)]

\* a loop whose catch handlers do not contain an error thrown by failJob
FailJobUncaught(w) ==
  LET j == workers[w].job
      upd == FailJobUpdate(workers[w].err) IN
  /\ workers[w].pc = "fail"
  /\ cfg.wk # "p006"
  /\ \/ /\ jobs' = UpdateById(jobs, j, upd)
        /\ Finish(w, "failed")
     \/ /\ UNCHANGED jobs
        /\ Step(w, [workers[w] EXCEPT !.pc = "exited"])
  /\ UNCHANGED <<cfg, call, storage, provider, hooks, http, hist>>

\* the update's own error is not looked at, and an error it throws is caught
\* by loop()'s outer catch: the cycle ends either way
FailJob(w) ==
  LET j == workers[w].job
      upd == FailJobUpdate(workers[w].err) IN
  /\ workers[w].pc = "fail"
  /\ cfg.wk # "p006"
  /\ \/ /\ jobs' = UpdateById(jobs, j, upd)
        /\ Finish(w, "failed")
     \/ /\ UNCHANGED jobs
        /\ Finish(w, "failJobError")
  /\ UNCHANGED <<cfg, call, storage, provider, hooks, http, hist>>

\* part_006 loop(): no failJob, the outer catch logs the error
LogError(w) ==
  /\ workers[w].pc = "fail"
  /\ cfg.wk = "p006"
  /\ Finish(w, "loopError")
  /\ UNCHANGED <<cfg, call, storage, jobs, provider, hooks, http, hist>>

\* loop(): select the oldest rendering job; the second worker.js returns from
\* processRendering before the lock when the selected row has no heygen_video_url
QueryRendering(w) ==
  /\ workers[w].pc = "pollR"
  /\ \/ Finish(w, "loopError")
     \/ \E j \in Selected(jobs, "rendering", cfg.wk # "p006") :
          IF cfg.wk = "v2" /\ jobs[j].heygen_video_url = ""
          THEN Step(w, [IdleWorker EXCEPT !.pc = "sleep", !.out = "skipped", !.job = j])
          ELSE Step(w, [workers[w] EXCEPT !.pc = "claimR", !.job = j])
     \/ /\ Oldest(jobs, "rendering") = 0 \/ cfg.wk = "p006"
        /\ Finish(w, "idle")
  /\ UNCHANGED <<cfg, call, storage, jobs, provider, hooks, http, hist>>

\* processRendering(): the lock, rendering -> rendering_in_progress, then the
\* check of heygen_video_url on the locked row: worker.js (first) writes the job
\* back, part_006 returns, worker.js (second) has no check after the lock;
\* part_006 does not look at the lock's error
ClaimRendering(w) ==
  LET j == workers[w].job
      row == [jobs[j] EXCEPT !.status = "rendering_in_progress"] IN
  /\ workers[w].pc = "claimR"
  /\ \/ /\ IF cfg.wk = "p006" THEN Finish(w, "lostRender") ELSE Throw(w, "lock failed")
        /\ UNCHANGED <<jobs, hist>>
     \/ /\ ClaimHolds(jobs, j, "rendering")
        /\ jobs' = [jobs EXCEPT ![j] = row]
        /\ IF row.heygen_video_url = "" /\ cfg.wk = "p006"
           THEN Finish(w, "returned")
           ELSE Step(w, [workers[w] EXCEPT
                  !.pc = IF row.heygen_video_url = "" /\ cfg.wk = "v1"
                         THEN "unclaim" ELSE "compose",
                  !.locked = Locked(row)])
        /\ hist' = [hist EXCEPT !.rwins = Bump(@, j)]
     \/ /\ ~ClaimHolds(jobs, j, "rendering")
        /\ Finish(w, "lostRender")
        /\ UNCHANGED <<jobs, hist>>
  /\ UNCHANGED <<cfg, call, storage, provider, hooks, http>>

\* processRendering(): no heygen_video_url, write the job back to rendering
Unclaim(w) ==
  LET j == workers[w].job
      upd == [status |-> "rendering"] IN
  /\ workers[w].pc = "unclaim"
  /\ jobs' = UpdateById(jobs, j, upd)
  /\ hist' = NoteArm(hist, jobs, jobs')
  /\ Finish(w, "unclaimed")
  /\ UNCHANGED <<cfg, call, storage, provider, hooks, http>>

\* the scratch files of processRendering() in /tmp: worker.js (first) has a
\* logo, worker.js (second) a lower third, part_006 neither
RenderFiles ==
  {"walk", "avatar", "final"} \cup
  (IF cfg.wk = "v2" THEN {"lowerThird"} ELSE IF cfg.wk = "p006" THEN {} ELSE {"logo"})
\* the files on disk when a download or the ffmpeg run fails
ComposeFailFiles == {{}, {"walk", "avatar"}, RenderFiles \ {"final"}, RenderFiles}

\* an error inside processRendering()'s try block: the finally block is next
Raise(w, msg) == Step(w, [workers[w] EXCEPT !.pc = "renderEnd", !.err = msg])

\* processRendering(): the downloads and the ffmpeg run
Compose(w) ==
  /\ workers[w].pc = "compose"
  /\ \/ Step(w, [workers[w] EXCEPT !.pc = "upload", !.files = RenderFiles])
     \/ \E f \in ComposeFailFiles :
          Step(w, [workers[w] EXCEPT !.pc = "renderEnd", !.files = f, !.err = FFMPEG_ERROR])
  /\ UNCHANGED <<cfg, call, storage, jobs, provider, hooks, http, hist>>

\* uploadToStorage(): the upload writes renders/final-<id>.mp4 or fails; it
\* throws on the error, then returns getPublicUrl(storagePath). part_006 does
\* not look at the upload's error. storage holds the ids of the jobs whose
\* object exists in the bucket
Upload(w) ==
  /\ workers[w].pc = "upload"
  /\ \/ /\ storage' = storage \cup {workers[w].job}
        /\ Step(w, [workers[w] EXCEPT !.pc = "saveDone", !.url = PublicUrl(workers[w].job)])
     \/ /\ UNCHANGED storage
        /\ IF cfg.wk = "p006"
           THEN Step(w, [workers[w] EXCEPT !.pc = "saveDone",
                                           !.url = PublicUrl(workers[w].job)])
           ELSE Raise(w, "upload failed")
  /\ UNCHANGED <<cfg, call, jobs, provider, hooks, http, hist>>

\* processRendering(): status completed with final_public_url, then the email
\* (none in the second worker.js); part_006 does not look at the update's error
SaveCompleted(w) ==
  LET j == workers[w].job
      upd == [status |-> "completed", final_public_url |-> workers[w].url] IN
  /\ workers[w].pc = "saveDone"
  /\ \/ /\ jobs' = UpdateById(jobs, j, upd)
        /\ IF workers[w].locked.email # "" /\ cfg.wk # "v2"
           THEN Goto(w, "email") ELSE Goto(w, "renderEnd")
     \/ /\ cfg.wk # "p006"
        /\ Raise(w, "update failed")
        /\ UNCHANGED jobs
     \/ /\ cfg.wk = "p006"
        /\ IF workers[w].locked.email # "" THEN Goto(w, "email") ELSE Goto(w, "renderEnd")
        /\ UNCHANGED jobs
  /\ UNCHANGED <<cfg, call, storage, provider, hooks, http, hist>>

\* sendFinalEmail(), inside processRendering's try
SendEmail(w) ==
  /\ workers[w].pc = "email"
  /\ \/ Goto(w, "renderEnd")
     \/ Raise(w, EMAIL_ERROR)
  /\ UNCHANGED <<cfg, call, storage, jobs, provider, hooks, http, hist>>

\* a cleanup placed after the work instead of in a finally block
RenderCleanupOnSuccess(w) ==
  /\ workers[w].pc = "renderEnd"
  /\ IF workers[w].err = ""
     THEN Step(w, [IdleWorker EXCEPT !.pc = "sleep", !.job = workers[w].job,
                                     !.out = "rendered"])
     ELSE Throw(w, workers[w].err)
  /\ UNCHANGED <<cfg, call, storage, jobs, provider, hooks, http, hist>>

\* processRendering(), the finally block: the scratch files are unlinked, then
\* the function returns or its error goes on to loop()'s catch
RenderFinally(w) ==
  LET rec == [workers[w] EXCEPT !.files = @ \ RenderFiles] IN
  /\ workers[w].pc = "renderEnd"
  /\ IF rec.err = ""
     THEN Step(w, [IdleWorker EXCEPT !.pc = "sleep", !.job = rec.job,
                                     !.out = "rendered", !.files = rec.files])
     ELSE Step(w, [IdleWorker EXCEPT !.pc = "fail", !.job = rec.job, !.err = rec.err,
                                     !.files = rec.files])
  /\ UNCHANGED <<cfg, call, storage, jobs, provider, hooks, http, hist>>

\* sleep(POLL_MS), then the next cycle
Sleep(w) ==
  /\ workers[w].pc = "sleep"
  /\ Step(w, IdleWorker)
  /\ UNCHANGED <<cfg, call, storage, jobs, provider, hooks, http, hist>>

WorkerStep(w) ==
  \/ QueryQueued(w) \/ ClaimQueued(w) \/ GenerateScript(w) \/ ScriptFinally(w)
  \/ CreateHeygenVideo(w) \/ SaveRequested(w) \/ FailJob(w)
  \/ QueryRendering(w) \/ ClaimRendering(w)
  \/ Compose(w) \/ Upload(w) \/ SaveCompleted(w) \/ SendEmail(w) \/ RenderFinally(w)
  \/ Sleep(w)

(* ------------------------- avatar provider ----------------------------- *)
\* the provider finishes the video of request v
ProviderComplete(v) ==
  /\ v \in DOMAIN provider
  /\ ~provider[v].done
  /\ provider' = [provider EXCEPT ![v].done = TRUE]
  /\ UNCHANGED <<cfg, call, storage, jobs, workers, hooks, http, hist>>

(* ---------------------- webhook: POST /heygen-callback ----------------- *)
Hook(h, rec) == hooks' = [hooks EXCEPT ![h] = rec]
\* the handler returns
Done(h) == Hook(h, IdleHook)
\* res.json(...) / res.status(...).json(...): the response of this request
Respond(r) == http' = r

\* an earlier delivery already stored the avatar locator of a targeted job
Delivered(targets) == \E j \in targets \cap JobIds : jobs[j].heygen_video_url # ""

\* a token check that does not depend on a secret being configured
TokenAlwaysChecked(token) == token = "" \/ token # cfg.secret

TokenRejected(token) == cfg.secret # "" /\ (token = "" \/ token # cfg.secret)

\* a bridge that stores the locator and leaves the status alone
HookWriteUrlOnly(url) == [heygen_video_url |-> url]

HookWrite(url) == [status |-> "rendering", heygen_video_url |-> url]

\* api.js / part_002: respond, check the token and job_id
ApiStart(h, token, jobId) ==
  /\ cfg.api \in {"api", "p002"}
  /\ hooks[h].pc = "idle"
  /\ Respond("200 ok:true")
  /\ IF TokenRejected(token) \/ jobId = 0
     THEN Done(h)
     ELSE Hook(h, [IdleHook EXCEPT !.pc = "select", !.token = token, !.jobId = jobId,
                     !.resp = "200 ok:true",
                     !.late = Delivered({jobId})])
  /\ UNCHANGED <<cfg, call, storage, jobs, provider, workers, hist>>

\* the handler that would insert a row for a job id it does not find
ApiSelectUpsert(h) ==
  LET j == hooks[h].jobId IN
  /\ cfg.api \in {"api", "p002"}
  /\ hooks[h].pc = "select"
  /\ IF j \notin JobIds
     THEN /\ jobs' = Append(jobs, NewRow(WALK_URL, 20, "female", ""))
          /\ Done(h)
     ELSE /\ UNCHANGED jobs
          /\ IF \/ jobs[j].heygen_video_id = 0
                \/ (cfg.api = "api" /\ StartsWithHttp(jobs[j].heygen_video_url))
             THEN Done(h)
             ELSE Hook(h, [hooks[h] EXCEPT !.pc = "poll",
                             !.videoId = jobs[j].heygen_video_id])
  /\ UNCHANGED <<cfg, call, storage, provider, workers, http, hist>>

\* api.js / part_002: read the job row, then the guards on it
ApiSelect(h) ==
  LET j == hooks[h].jobId IN
  /\ cfg.api \in {"api", "p002"}
  /\ hooks[h].pc = "select"
  /\ IF \/ j \notin JobIds
        \/ jobs[j].heygen_video_id = 0
        \/ (cfg.api = "api" /\ StartsWithHttp(jobs[j].heygen_video_url))
     THEN Done(h)
     ELSE Hook(h, [hooks[h] EXCEPT !.pc = "poll", !.videoId = jobs[j].heygen_video_id])
  /\ UNCHANGED <<cfg, call, storage, jobs, provider, workers, http, hist>>

\* fetchHeyGenVideoUrl(): the locator when the provider reports completed,
\* null when it does not within the attempts
ApiPoll(h) ==
  LET v == hooks[h].videoId IN
  /\ cfg.api \in {"api", "p002"}
  /\ hooks[h].pc = "poll"
  /\ \/ /\ v \in DOMAIN provider /\ provider[v].done
        /\ Hook(h, [hooks[h] EXCEPT !.pc = "update", !.videoUrl = VideoUrl(v)])
     \/ Done(h)
  /\ UNCHANGED <<cfg, call, storage, jobs, provider, workers, http, hist>>

\* api.js / part_002: .update({status: "rendering", heygen_video_url}).eq("id", jobId)
ApiUpdate(h) ==
  LET j == hooks[h].jobId
      upd == HookWrite(hooks[h].videoUrl) IN
  /\ cfg.api \in {"api", "p002"}
  /\ hooks[h].pc = "update"
  /\ \/ /\ jobs' = UpdateById(jobs, j, upd)
        /\ hist' = NoteArm(hist, jobs, jobs')
     \/ UNCHANGED <<jobs, hist>>
  /\ Done(h)
  /\ UNCHANGED <<cfg, call, storage, provider, workers, http>>

\* part_000 (second server): token, job_id and data.video_url checks
P000Start(h, token, jobId, videoUrl) ==
  /\ cfg.api = "p000b"
  /\ hooks[h].pc = "idle"
  /\ IF TokenRejected(token) THEN Done(h) /\ Respond("401")
     ELSE IF jobId = 0 \/ videoUrl = "" THEN Done(h) /\ Respond("400")
     ELSE /\ Hook(h, [IdleHook EXCEPT !.pc = "update", !.token = token, !.jobId = jobId,
                        !.videoUrl = videoUrl,
                        !.late = Delivered({jobId})])
          /\ UNCHANGED http
  /\ UNCHANGED <<cfg, call, storage, jobs, provider, workers, hist>>

\* part_000 (second server): the update by id, then the response
P000Update(h) ==
  LET j == hooks[h].jobId
      upd == HookWrite(hooks[h].videoUrl) IN
  /\ cfg.api = "p000b"
  /\ hooks[h].pc = "update"
  /\ \/ /\ jobs' = UpdateById(jobs, j, upd)
        /\ hist' = NoteArm(hist, jobs, jobs')
        /\ Respond("200 success:true")
     \/ /\ UNCHANGED <<jobs, hist>>
        /\ Respond("500")
  /\ Done(h)
  /\ UNCHANGED <<cfg, call, storage, provider, workers>>

\* server.js (second server): the rows .eq("heygen_video_id", videoId) selects
SrvTargets(videoId) == {j \in JobIds : jobs[j].heygen_video_id = videoId}

\* server.js (second server): parse the body; no token or job_id is read
SrvStart(h, token, eventType, videoId, videoUrl) ==
  /\ cfg.api = "srvB"
  /\ hooks[h].pc = "idle"
  /\ IF videoId = 0 \/ eventType = "avatar_video_gif.success"
        \/ ~(eventType = "avatar_video.success" /\ videoUrl # "")
     THEN Done(h) /\ Respond("200 ok:true")
     ELSE /\ Hook(h, [IdleHook EXCEPT !.pc = "update", !.token = token,
                        !.eventType = eventType, !.videoId = videoId,
                        !.videoUrl = videoUrl,
                        !.late = Delivered(SrvTargets(videoId))])
          /\ UNCHANGED http
  /\ UNCHANGED <<cfg, call, storage, jobs, provider, workers, hist>>

\* server.js (second server): .update(...).eq("heygen_video_id", videoId), then respond
SrvUpdate(h) ==
  LET t == SrvTargets(hooks[h].videoId) IN
  /\ cfg.api = "srvB"
  /\ hooks[h].pc = "update"
  /\ \/ /\ jobs' = [j \in DOMAIN jobs |->
                      IF j \in t THEN SetFields(jobs[j], HookWrite(hooks[h].videoUrl))
                      ELSE jobs[j]]
        /\ hist' = NoteArm(hist, jobs, jobs')
        /\ Respond("200 ok:true")
     \/ /\ UNCHANGED <<jobs, hist>>
        /\ Respond("200 ok:true")
     \/ /\ UNCHANGED <<jobs, hist>>
        /\ Respond("500")
  /\ Done(h)
  /\ UNCHANGED <<cfg, call, storage, provider, workers>>

ApiHookStep(h) ==
  \/ \E token \in Tokens, jobId \in 0..(MaxJobs + 1) : ApiStart(h, token, jobId)
  \/ ApiSelect(h) \/ ApiPoll(h) \/ ApiUpdate(h)

LegacyHookStep(h) ==
  \/ ApiHookStep(h)
  \/ \E token \in Tokens, jobId \in 0..(MaxJobs + 1), videoUrl \in UrlInputs :
        P000Start(h, token, jobId, videoUrl)
  \/ P000Update(h)
  \/ \E token \in Tokens, eventType \in EventTypes, videoId \in 0..MaxJobs,
        videoUrl \in UrlInputs : SrvStart(h, token, eventType, videoId, videoUrl)
  \/ SrvUpdate(h)

(* --------- server.js (first server): the callback does the render ------- *)
\* POST /compose-walkthrough: insert the row, extract and upload the audio,
\* request the avatar video and store its id; an error after the insert is
\* answered with 500 and leaves the row queued
MonoCompose ==
  LET j == Len(jobs) + 1
      row == NewRow(WALK_URL, 20, "", "") IN
  /\ cfg.api = "srvA"
  /\ Len(jobs) < MaxJobs
  /\ \/ /\ jobs' = Append(jobs, [row EXCEPT !.status = "heygen_requested",
                                             !.heygen_video_id = j])
        /\ Respond("200 ok:true")
     \/ /\ jobs' = Append(jobs, row)
        /\ Respond("500")
  /\ UNCHANGED <<cfg, call, storage, provider, workers, hooks, hist>>

\* token and job_id checks, then the payload is parsed
MonoStart(h, token, jobId, status, videoUrl) ==
  /\ cfg.api = "srvA"
  /\ hooks[h].pc = "idle"
  /\ IF token = "" \/ token # cfg.secret
     THEN Done(h) /\ Respond("401")
     ELSE IF jobId = 0
     THEN Done(h) /\ Respond("400")
     ELSE /\ Hook(h, [IdleHook EXCEPT !.pc = "mark", !.token = token, !.jobId = jobId,
                        !.status = status, !.videoUrl = videoUrl,
                        !.late = Delivered({jobId})])
          /\ UNCHANGED http
  /\ UNCHANGED <<cfg, call, storage, jobs, provider, workers, hist>>

MonoMarkUpdate(status, videoUrl) ==
  [status |-> IF status = "completed" THEN "heygen_completed" ELSE "heygen_requested",
   heygen_video_url |-> videoUrl]

\* "Update job row with what we got", then the early answers
MonoMark(h) ==
  LET r == hooks[h] IN
  /\ cfg.api = "srvA"
  /\ r.pc = "mark"
  /\ \/ jobs' = UpdateById(jobs, r.jobId, MonoMarkUpdate(r.status, r.videoUrl))
     \/ UNCHANGED jobs
  /\ IF r.status # "" /\ r.status # "completed"
     THEN Done(h) /\ Respond("200 ok:true received")
     ELSE /\ Hook(h, [r EXCEPT !.pc = IF r.videoUrl = "" THEN "noUrl" ELSE "load"])
          /\ UNCHANGED http
  /\ UNCHANGED <<cfg, call, storage, provider, workers, hist>>

\* completed (or no status) without a video_url: the job is failed, 500
MonoNoUrl(h) ==
  LET upd == [status |-> "failed", error |-> MONO_NO_URL_ERROR] IN
  /\ cfg.api = "srvA"
  /\ hooks[h].pc = "noUrl"
  /\ \/ jobs' = UpdateById(jobs, hooks[h].jobId, upd)
     \/ UNCHANGED jobs
  /\ Respond("500")
  /\ Done(h)
  /\ UNCHANGED <<cfg, call, storage, provider, workers, hist>>

\* "Load job": .single() gives an error for a missing row, which is thrown
MonoLoad(h) ==
  /\ cfg.api = "srvA"
  /\ hooks[h].pc = "load"
  /\ IF hooks[h].jobId \in JobIds
     THEN Hook(h, [hooks[h] EXCEPT !.pc = "render"])
     ELSE Hook(h, [hooks[h] EXCEPT !.pc = "catch", !.resp = MONO_LOAD_ERROR])
  /\ UNCHANGED <<cfg, call, storage, jobs, provider, workers, http, hist>>

\* status rendering, then downloads, ffmpeg runs and the upload of the final
MonoRender(h) ==
  LET upd == [status |-> "rendering"] IN
  /\ cfg.api = "srvA"
  /\ hooks[h].pc = "render"
  /\ \/ jobs' = UpdateById(jobs, hooks[h].jobId, upd)
     \/ UNCHANGED jobs
  /\ hist' = NoteArm(hist, jobs, jobs')
  /\ \/ Hook(h, [hooks[h] EXCEPT !.pc = "save"])
     \/ Hook(h, [hooks[h] EXCEPT !.pc = "catch", !.resp = MONO_FFMPEG_ERROR])
  /\ UNCHANGED <<cfg, call, storage, provider, workers, http>>

\* status completed with final_public_url, answered with the final url
MonoSave(h) ==
  LET j == hooks[h].jobId
      upd == [status |-> "completed", final_public_url |-> PublicUrl(j)] IN
  /\ cfg.api = "srvA"
  /\ hooks[h].pc = "save"
  /\ \/ jobs' = UpdateById(jobs, j, upd)
     \/ UNCHANGED jobs
  /\ Respond("200 ok:true final_url")
  /\ Done(h)
  /\ UNCHANGED <<cfg, call, storage, provider, workers, hist>>

\* catch: best effort status failed with String(err), 500
MonoCatch(h) ==
  LET upd == [status |-> "failed", error |-> hooks[h].resp] IN
  /\ cfg.api = "srvA"
  /\ hooks[h].pc = "catch"
  /\ \/ jobs' = UpdateById(jobs, hooks[h].jobId, upd)
     \/ UNCHANGED jobs
  /\ Respond("500")
  /\ Done(h)
  /\ UNCHANGED <<cfg, call, storage, provider, workers, hist>>

MonoHookStep(h) ==
  \/ \E token \in Tokens, jobId \in 0..(MaxJobs + 1), status \in PayloadStatuses,
        videoUrl \in UrlInputs : MonoStart(h, token, jobId, status, videoUrl)
  \/ MonoMark(h) \/ MonoNoUrl(h) \/ MonoLoad(h) \/ MonoRender(h)
  \/ MonoSave(h) \/ MonoCatch(h)

(* ------------------------------- Next ---------------------------------- *)
\* worker.js with reelestate-api/api.js: any number of workers and of
\* concurrently handled callbacks
Next ==
  \/ \E email \in Emails : CreateJob(email)
  \/ \E w \in Workers : WorkerStep(w)
  \/ \E v \in VideoIds : ProviderComplete(v)
  \/ \E h \in Hooks : ApiHookStep(h)

Spec == Init /\ [][Next]_vars

\* the worker process dies while it holds a claim: the job stays in processing
\* or in rendering_in_progress and this worker takes no further step
Crash(w) ==
  /\ workers[w].job \in DOMAIN jobs
  /\ workers[w].pc \in {"script", "scriptEnd", "heygen", "saveQ",
                        "compose", "upload", "saveDone"}
  /\ jobs[workers[w].job].status \in {"processing", "rendering_in_progress"}
  /\ Step(w, [IdleWorker EXCEPT !.pc = "crashed", !.job = workers[w].job,
                                !.files = workers[w].files])
  /\ UNCHANGED <<cfg, call, storage, jobs, provider, hooks, http, hist>>

SpecCrash == Init /\ [][Next \/ \E w \in Workers : Crash(w)]_vars

\* Phase 2 of the three worker iterations on a job the webhook bridge left in
\* rendering, with or without its heygen_video_url
RenderConfigs == [api : {"api"}, secret : {SECRET}, wk : WorkerVersions]
RenderRows ==
  {[NewRow(WALK_URL, 20, "female", e) EXCEPT
      !.status = "rendering", !.heygen_video_id = 1, !.heygen_video_url = u] :
     e \in Emails, u \in UrlInputs}

InitRender ==
  /\ cfg \in RenderConfigs
  /\ jobs \in {<<r>> : r \in RenderRows}
  /\ provider = <<[job |-> 1, done |-> TRUE]>>
  /\ workers = [w \in Workers |-> IdleWorker]
  /\ hooks = [h \in Hooks |-> IdleHook]
  /\ http = ""
  /\ storage = {}
  /\ call = NoCall
  /\ hist = [qwins |-> [j \in 1..LoopJobs |-> 1],
             rwins |-> [j \in 1..LoopJobs |-> 0],
             arms |-> [j \in 1..LoopJobs |-> 1]]

RenderStep(w) ==
  \/ QueryQueued(w) \/ QueryRendering(w) \/ ClaimRendering(w) \/ Unclaim(w)
  \/ Compose(w) \/ Upload(w) \/ SaveCompleted(w) \/ SendEmail(w) \/ RenderFinally(w)
  \/ FailJob(w) \/ LogError(w) \/ Sleep(w)

NextRender == \E w \in Workers : RenderStep(w)

SpecRender == InitRender /\ [][NextRender]_vars

\* one worker of worker.js, first or second, and two jobs in rendering, each
\* with or without its heygen_video_url; no call fails and the loop keeps
\* taking steps
InitStall ==
  /\ cfg \in [api : {"api"}, secret : {SECRET}, wk : {"v1", "v2"}]
  /\ jobs \in [1..LoopJobs -> RenderRows]
  /\ provider = <<[job |-> 1, done |-> TRUE]>>
  /\ workers = [w \in Workers |-> IdleWorker]
  /\ hooks = [h \in Hooks |-> IdleHook]
  /\ http = ""
  /\ storage = {}
  /\ call = NoCall
  /\ hist = [qwins |-> [j \in 1..LoopJobs |-> 1],
             rwins |-> [j \in 1..LoopJobs |-> 0],
             arms |-> [j \in 1..LoopJobs |-> 1]]

SpecStall ==
  /\ InitStall
  /\ [][RenderStep(1) /\ workers'[1].err = "" /\ workers'[1].out # "loopError"]_vars
  /\ WF_vars(RenderStep(1) /\ workers'[1].err = "" /\ workers'[1].out # "loopError")

\* server.js (first server): no worker process, the handlers do all the work;
\* one callback at a time
MonoConfigs == [api : {"srvA"}, secret : {SECRET}, wk : {"none"}]
InitMono == Start(MonoConfigs)
NextMono == MonoCompose \/ MonoHookStep(1)
SpecMono == InitMono /\ [][NextMono]_vars

\* the happy path: one worker and one callback handler, no call fails; the
\* provider may be called back at any time and with any token
HappyWorkerStep(w) ==
  /\ \/ QueryQueued(w) \/ ClaimQueued(w) \/ GenerateScript(w) \/ ScriptFinally(w)
     \/ CreateHeygenVideo(w) \/ SaveRequested(w) \/ QueryRendering(w)
     \/ ClaimRendering(w) \/ Compose(w) \/ Upload(w) \/ SaveCompleted(w)
     \/ SendEmail(w) \/ RenderFinally(w) \/ Sleep(w)
  /\ workers'[w].pc # "fail"
  /\ workers'[w].err = ""
  /\ workers'[w].out # "loopError"

HappyHookStep(h) ==
  \/ ApiSelect(h)
  \/ /\ ApiPoll(h)
     /\ (hooks[h].videoId \in DOMAIN provider /\ provider[hooks[h].videoId].done)
          => hooks'[h].pc = "update"
  \/ /\ ApiUpdate(h)
     /\ jobs' # jobs

\* the completion callback of job j: correct token, job_id = j, sent once the
\* provider has finished the video the job waits for
Delivery(h, j) ==
  /\ j \in JobIds
  /\ jobs[j].status = "heygen_requested"
  /\ jobs[j].heygen_video_id \in DOMAIN provider
  /\ provider[jobs[j].heygen_video_id].done
  /\ ApiStart(h, SECRET, j)

NextHappy ==
  \/ \E email \in Emails : CreateJob(email)
  \/ HappyWorkerStep(1)
  \/ \E v \in VideoIds : ProviderComplete(v)
  \/ \E token \in Tokens, jobId \in 0..(MaxJobs + 1) : ApiStart(1, token, jobId)
  \/ HappyHookStep(1)

\* the worker keeps running, the provider finishes, the handler runs to its
\* end, and the completion callback is delivered
SpecHappy ==
  /\ Init /\ [][NextHappy]_vars
  /\ WF_vars(HappyWorkerStep(1))
  /\ WF_vars(\E v \in VideoIds : ProviderComplete(v))
  /\ WF_vars(HappyHookStep(1))
  /\ \A j \in 1..MaxJobs : SF_vars(Delivery(1, j))

\* the provider's completion callback for its request v: correct token, the
\* job_id of the callback locator; it is sent once the video is finished, also
\* when the worker has not saved the request id yet, and it is not repeated
\* after the handler's 200
DeliverOnce(h, v) ==
  /\ v \in DOMAIN provider
  /\ provider[v].done
  /\ http = ""
  /\ ApiStart(h, SECRET, provider[v].job)

\* the happy path with a provider that calls back once, whenever it is done
SpecOnce ==
  /\ Init
  /\ [][\/ \E email \in Emails : CreateJob(email)
        \/ HappyWorkerStep(1)
        \/ \E v \in VideoIds : ProviderComplete(v) \/ DeliverOnce(1, v)
        \/ HappyHookStep(1)]_vars
  /\ WF_vars(HappyWorkerStep(1))
  /\ WF_vars(\E v \in VideoIds : ProviderComplete(v))
  /\ WF_vars(HappyHookStep(1))
  /\ \A v \in VideoIds : WF_vars(DeliverOnce(1, v))

\* one worker of worker.js with two queued jobs, every error branch included;
\* the loop keeps taking steps
LoopConfigs == [api : {"api"}, secret : {SECRET}, wk : {"v1"}]
LoopRows == {NewRow(WALK_URL, 20, "female", e) : e \in Emails \ {""}}

InitLoop ==
  /\ cfg \in LoopConfigs
  /\ jobs \in [1..LoopJobs -> LoopRows]
  /\ provider = <<>>
  /\ workers = [w \in Workers |-> IdleWorker]
  /\ hooks = [h \in Hooks |-> IdleHook]
  /\ http = ""
  /\ storage = {}
  /\ call = NoCall
  /\ hist = [qwins |-> [j \in 1..LoopJobs |-> 0],
             rwins |-> [j \in 1..LoopJobs |-> 0],
             arms |-> [j \in 1..LoopJobs |-> 0]]

NextLoop ==
  \/ WorkerStep(1)
  \/ \E v \in 1..LoopJobs : ProviderComplete(v)
  \/ \E jobId \in 1..LoopJobs : ApiStart(1, cfg.secret, jobId)
  \/ ApiSelect(1) \/ ApiPoll(1) \/ ApiUpdate(1)

\* while (true) in loop(): the worker process keeps running; the job store
\* does not answer the queued query and the lock with an error forever
SpecLoop ==
  /\ InitLoop /\ [][NextLoop]_vars
  /\ WF_vars(WorkerStep(1))
  /\ SF_vars(QueryQueued(1) /\ workers'[1].pc = "claimQ")
  /\ SF_vars(ClaimQueued(1) /\ jobs' # jobs)

\* one worker, of either worker of worker.js or of part_006, with two jobs that wait in queued
\* or, with their heygen_video_url, in rendering
OrderConfigs == [api : {"api"}, secret : {SECRET}, wk : WorkerVersions]
OrderRows ==
  LoopRows \cup
  {[r EXCEPT !.status = "rendering", !.heygen_video_id = 1,
             !.heygen_video_url = VideoUrl(1)] : r \in LoopRows}

InitOrder ==
  /\ cfg \in OrderConfigs
  /\ jobs \in [1..LoopJobs -> OrderRows]
  /\ provider = <<>>
  /\ workers = [w \in Workers |-> IdleWorker]
  /\ hooks = [h \in Hooks |-> IdleHook]
  /\ http = ""
  /\ storage = {}
  /\ call = NoCall
  /\ hist = [qwins |-> [j \in 1..LoopJobs |-> 0],
             rwins |-> [j \in 1..LoopJobs |-> 0],
             arms |-> [j \in 1..LoopJobs |-> 0]]

NextOrder == WorkerStep(1) \/ LogError(1)

SpecOrder == InitOrder /\ [][NextOrder]_vars


(* --------------------------- media downloads --------------------------- *)
MAX_WALK_DOWNLOAD_MB == 250
MAX_AVATAR_DOWNLOAD_MB == 500
MB == 1024 * 1024
MaxChunks == 3

RECURSIVE Sum(_)
Sum(q) == IF q = <<>> THEN 0 ELSE Head(q) + Sum(Tail(q))

\* one call of downloadFile(url, outPath) or of
\* downloadToFile(url, outPath, {maxMB}) with a valid url; maxBytes is the
\* caller's limit, chunks the byte lengths of what the source would send
InitFetch ==
  /\ cfg \in [api : {"api"}, secret : {SECRET}, wk : {"v1", "v2"}]
  /\ jobs = <<>>
  /\ provider = <<>>
  /\ workers = [w \in Workers |-> IdleWorker]
  /\ hooks = [h \in Hooks |-> IdleHook]
  /\ http = ""
  /\ storage = {}
  /\ hist = [qwins |-> [j \in 1..LoopJobs |-> 0],
             rwins |-> [j \in 1..LoopJobs |-> 0],
             arms |-> [j \in 1..LoopJobs |-> 0]]
  /\ \E r \in 0..FETCH_RETRIES, m \in {MAX_WALK_DOWNLOAD_MB, MAX_AVATAR_DOWNLOAD_MB},
        n \in 0..MaxChunks :
     \E q \in [1..n -> {1, MAX_WALK_DOWNLOAD_MB * MB, MAX_WALK_DOWNLOAD_MB * MB + 1}] :
       call = [NoCall EXCEPT
               !.fn = IF cfg.wk = "v1" THEN "downloadFile" ELSE "downloadToFile",
               !.pc = "fetch", !.retries = r, !.attempt = 1,
               !.maxBytes = m * MB, !.chunks = q]

\* downloadFile(): one fetchWithTimeout, which answers or rejects
FetchOnce ==
  /\ call.fn = "downloadFile" /\ call.pc = "fetch"
  /\ \/ call' = [call EXCEPT !.pc = "resp"]
     \/ call' = [call EXCEPT !.pc = "failed", !.err = "fetch failed"]
  /\ UNCHANGED <<cfg, storage, jobs, provider, workers, hooks, http, hist>>

\* fetchRetry() with one turn too many
FetchRetryOneMore ==
  /\ call.fn = "downloadToFile" /\ call.pc = "fetch"
  /\ IF call.attempt <= call.retries + 1
     THEN \/ call' = [call EXCEPT !.pc = "resp"]
          \/ call' = [call EXCEPT !.attempt = @ + 1, !.err = "fetch failed"]
     ELSE call' = [call EXCEPT !.pc = "failed", !.err = "fetch failed"]
  /\ UNCHANGED <<cfg, storage, jobs, provider, workers, hooks, http, hist>>

\* fetchRetry(): one turn of for (attempt = 1; attempt <= retries; attempt++),
\* or the throw after the loop
FetchRetry ==
  /\ call.fn = "downloadToFile" /\ call.pc = "fetch"
  /\ IF call.attempt <= call.retries
     THEN \/ call' = [call EXCEPT !.pc = "resp"]
          \/ call' = [call EXCEPT !.attempt = @ + 1, !.err = "fetch failed"]
     ELSE call' = [call EXCEPT !.pc = "failed", !.err = "fetch failed"]
  /\ UNCHANGED <<cfg, storage, jobs, provider, workers, hooks, http, hist>>

\* if (!resp.ok) throw; downloadFile() then buffers the whole body and writes
\* it, downloadToFile() writes an absent body as an empty file or starts to read
CheckResponse ==
  /\ call.pc = "resp"
  /\ \/ call' = [call EXCEPT !.pc = "failed", !.err = "Download failed"]
     \/ /\ call.fn = "downloadFile"
        /\ call' = [call EXCEPT !.pc = "done", !.chunks = <<>>,
                            !.downloaded = Sum(call.chunks),
                            !.written = Sum(call.chunks)]
     \/ /\ call.fn = "downloadToFile"
        /\ \/ call' = [call EXCEPT !.pc = "done", !.chunks = <<>>]
           \/ call' = [call EXCEPT !.pc = "read"]
  /\ UNCHANGED <<cfg, storage, jobs, provider, workers, hooks, http, hist>>

\* downloadToFile(): one turn of while (true) { reader.read() ... }
ReadChunk ==
  /\ call.pc = "read"
  /\ IF call.chunks = <<>>
     THEN call' = [call EXCEPT !.pc = "done"]
     ELSE LET n == call.downloaded + Head(call.chunks) IN
          IF n > call.maxBytes
          THEN call' = [call EXCEPT !.pc = "failed", !.err = "File too large",
                                !.downloaded = n]
          ELSE call' = [call EXCEPT !.downloaded = n, !.written = @ + Head(call.chunks),
                                !.chunks = Tail(@)]
  /\ UNCHANGED <<cfg, storage, jobs, provider, workers, hooks, http, hist>>

SpecFetch ==
  InitFetch /\ [][FetchOnce \/ FetchRetry \/ CheckResponse \/ ReadChunk]_vars

\* fetchWithTimeout() aborts a fetch that does not answer and sleep() ends:
\* every turn of the retry loop is completed
SpecFetchFair == SpecFetch /\ WF_vars(FetchOnce) /\ WF_vars(FetchRetry)

(* ------------------------- background canvas --------------------------- *)
CANVAS_W == 1080
CANVAS_H == 1920
\* av_rescale(a, b, c) of ffmpeg's scale filter: a * b / c, rounded to nearest
Rescale(a, b, c) == (2 * a * b + c) \div (2 * c)
\* widths and heights of a walkthrough's frames
FrameSizes == {480, 720, 1000, 1080, 1920, 3840}

\* the [0:v] chain of the compose filter graph, applied to one frame size; the
\* first server turns a frame with rotation metadata of 90 before it scales
InitCanvas ==
  /\ cfg \in [api : {"api"}, secret : {SECRET}, wk : {"v1", "v2"}] \cup MonoConfigs
  /\ jobs = <<>>
  /\ provider = <<>>
  /\ workers = [w \in Workers |-> IdleWorker]
  /\ hooks = [h \in Hooks |-> IdleHook]
  /\ http = ""
  /\ storage = {}
  /\ hist = [qwins |-> [j \in 1..LoopJobs |-> 0],
             rwins |-> [j \in 1..LoopJobs |-> 0],
             arms |-> [j \in 1..LoopJobs |-> 0]]
  /\ \E iw \in FrameSizes, ih \in FrameSizes, rot \in {0, 90} :
       call = [fn |-> "normalize", pc |-> "scale", iw |-> iw, ih |-> ih,
               rot |-> IF cfg.api = "srvA" THEN rot ELSE 0,
               w |-> 0, h |-> 0, ow |-> 0, oh |-> 0, x |-> 0, y |-> 0,
               lostW |-> 0, lostH |-> 0]

\* scale=1080:1920:force_original_aspect_ratio=decrease (the workers) or
\* =increase (the first server, after transpose=1): iw, ih become the frame
\* that enters the scale filter, w, h the frame that leaves it
ScaleBg ==
  /\ call.fn = "normalize" /\ call.pc = "scale"
  /\ LET iw == IF call.rot = 90 THEN call.ih ELSE call.iw
         ih == IF call.rot = 90 THEN call.iw ELSE call.ih
         tmp_w == Rescale(CANVAS_H, iw, ih)
         tmp_h == Rescale(CANVAS_W, ih, iw)
         grow == cfg.api = "srvA" IN
     call' = [call EXCEPT !.pc = "fit", !.iw = iw, !.ih = ih,
                !.w = IF (tmp_w > CANVAS_W) = grow THEN tmp_w ELSE CANVAS_W,
                !.h = IF (tmp_h > CANVAS_H) = grow THEN tmp_h ELSE CANVAS_H]
  /\ UNCHANGED <<cfg, storage, jobs, provider, workers, hooks, http, hist>>

\* pad=1080:1920:(ow-iw)/2:(oh-ih)/2 (the workers) or crop=1080:1920 (the
\* first server): the canvas, the place of the frame on it, and the columns
\* and rows of the frame that fall outside it
FitCanvas ==
  /\ call.fn = "normalize" /\ call.pc = "fit"
  /\ IF cfg.api = "srvA"
     THEN call' = [call EXCEPT !.pc = "done", !.ow = CANVAS_W, !.oh = CANVAS_H,
                     !.x = 0, !.y = 0,
                     !.lostW = call.w - CANVAS_W, !.lostH = call.h - CANVAS_H]
     ELSE call' = [call EXCEPT !.pc = "done", !.ow = CANVAS_W, !.oh = CANVAS_H,
                     !.x = (CANVAS_W - call.w) \div 2, !.y = (CANVAS_H - call.h) \div 2]
  /\ UNCHANGED <<cfg, storage, jobs, provider, workers, hooks, http, hist>>

SpecCanvas == InitCanvas /\ [][ScaleBg \/ FitCanvas]_vars

(* --------------------------- callback locator -------------------------- *)
\* encodeURIComponent() on the characters a secret is made of here: letters
\* and digits stay, the others become their percent escape
Escapes == [c \in {"&", "+", "#", "%", " ", "="} |->
              CASE c = "&" -> "%26" [] c = "+" -> "%2B" [] c = "#" -> "%23"
                [] c = "%" -> "%25" [] c = " " -> "%20" [] c = "=" -> "%3D"]
RECURSIVE EncodeURIComponent(_)
EncodeURIComponent(str) ==
  IF Len(str) = 0 THEN ""
  ELSE LET c == SubSeq(str, 1, 1) IN
       (IF c \in DOMAIN Escapes THEN Escapes[c] ELSE c)
         \o EncodeURIComponent(SubSeq(str, 2, Len(str)))

\* the decoding express applies to a key or a value of the query string:
\* "+" is a space, a percent escape its character
RECURSIVE DecodeQuery(_)
DecodeQuery(str) ==
  IF Len(str) = 0 THEN ""
  ELSE LET c == SubSeq(str, 1, 1)
           esc == IF Len(str) >= 3 THEN SubSeq(str, 1, 3) ELSE ""
           hit == {x \in DOMAIN Escapes : Escapes[x] = esc} IN
       IF c = "%" /\ hit # {}
       THEN (CHOOSE x \in hit : TRUE) \o DecodeQuery(SubSeq(str, 4, Len(str)))
       ELSE (IF c = "+" THEN " " ELSE c) \o DecodeQuery(SubSeq(str, 2, Len(str)))

\* the first position of character c in str, 0 when there is none
IndexOf(str, c) ==
  LET at == {i \in 1..Len(str) : SubSeq(str, i, i) = c} IN
  IF at = {} THEN 0 ELSE CHOOSE i \in at : \A k \in at : i <= k

\* req.query[key] of a query string: the pairs are split at "&", each at its
\* first "=", and decoded; "" when the key is absent
RECURSIVE QueryParam(_, _)
QueryParam(q, key) ==
  LET i == IndexOf(q, "&")
      pair == IF i = 0 THEN q ELSE SubSeq(q, 1, i - 1)
      rest == IF i = 0 THEN "" ELSE SubSeq(q, i + 1, Len(q))
      e == IndexOf(pair, "=")
      k == IF e = 0 THEN pair ELSE SubSeq(pair, 1, e - 1)
      v == IF e = 0 THEN "" ELSE SubSeq(pair, e + 1, Len(pair)) IN
  IF DecodeQuery(k) = key THEN DecodeQuery(v)
  ELSE IF Len(rest) = 0 THEN "" ELSE QueryParam(rest, key)

\* one callback locator: built by createHeygenVideo() of worker.js or of
\* part_006 from the configured secret and the job id, then requested by the
\* provider and read by the handler of api.js
InitCallback ==
  /\ cfg \in [api : {"api"},
              secret : {SECRET, "k3y9", "a&b", "a+b", "a#b", "a%b", "a b", "ab=", "a%26b", "+/=="},
              wk : {"v1", "p006"}]
  /\ jobs = <<>>
  /\ provider = <<>>
  /\ workers = [w \in Workers |-> IdleWorker]
  /\ hooks = [h \in Hooks |-> IdleHook]
  /\ http = ""
  /\ storage = {}
  /\ hist = [qwins |-> [j \in 1..LoopJobs |-> 0],
             rwins |-> [j \in 1..LoopJobs |-> 0],
             arms |-> [j \in 1..LoopJobs |-> 0]]
  /\ \E j \in 1..LoopJobs :
       call = [fn |-> "callback", pc |-> "build", jobId |-> j, url |-> "",
               token |-> "", job_id |-> ""]

\* callbackUrl: worker.js escapes both values, part_006 interpolates them
BuildCallbackUrl ==
  /\ call.fn = "callback" /\ call.pc = "build"
  /\ call' = [call EXCEPT !.pc = "sent",
       !.url = IF cfg.wk = "p006"
               THEN "https://api/heygen-callback?token=" \o cfg.secret
                      \o "&job_id=" \o ToString(call.jobId)
               ELSE "https://api/heygen-callback?token=" \o EncodeURIComponent(cfg.secret)
                      \o "&job_id=" \o EncodeURIComponent(ToString(call.jobId))]
  /\ UNCHANGED <<cfg, storage, jobs, provider, workers, hooks, http, hist>>

\* POST /heygen-callback: the provider requests the locator without its
\* fragment; the handler reads req.query.token and req.query.job_id
ReadCallback ==
  /\ call.fn = "callback" /\ call.pc = "sent"
  /\ LET h == IndexOf(call.url, "#")
         u == IF h = 0 THEN call.url ELSE SubSeq(call.url, 1, h - 1)
         q == SubSeq(u, IndexOf(u, "?") + 1, Len(u)) IN
     call' = [call EXCEPT !.pc = "read", !.token = QueryParam(q, "token"),
                          !.job_id = QueryParam(q, "job_id")]
  /\ UNCHANGED <<cfg, storage, jobs, provider, workers, hooks, http, hist>>

SpecCallback == InitCallback /\ [][BuildCallbackUrl \/ ReadCallback]_vars

(* --------------------------- payload probing --------------------------- *)
\* the payload paths the handlers try for the video locator, in their order:
\* the second server of server.js, its first server, and the status answer
\* read by fetchHeyGenVideoUrl() of api.js
ProbeOrder(api) ==
  CASE api = "srvB" -> <<"data.video_url", "data.url", "event_data.video_url",
                         "event_data.url", "video_url">>
    [] api = "srvA" -> <<"data.video_url", "data.url", "video_url", "url">>
    [] OTHER -> <<"data.video_url", "data.url", "data.videos[0].video_url",
                  "data.videos[0].url">>

\* one payload: each path is absent or holds a locator of its own; done says
\* that the payload reports the finished video (event_type avatar_video.success,
\* status completed)
InitProbe ==
  /\ cfg \in [api : {"srvB", "srvA", "api"}, secret : {SECRET}, wk : {"none"}]
  /\ jobs = <<>>
  /\ provider = <<>>
  /\ workers = [w \in Workers |-> IdleWorker]
  /\ hooks = [h \in Hooks |-> IdleHook]
  /\ http = ""
  /\ storage = {}
  /\ hist = [qwins |-> [j \in 1..LoopJobs |-> 0],
             rwins |-> [j \in 1..LoopJobs |-> 0],
             arms |-> [j \in 1..LoopJobs |-> 0]]
  /\ \E present \in SUBSET {ProbeOrder(cfg.api)[i] : i \in DOMAIN ProbeOrder(cfg.api)},
        done \in BOOLEAN :
       call = [fn |-> "probe", pc |-> "parse", done |-> done,
               body |-> [f \in present |-> "https://files.heygen.ai/" \o f],
               url |-> "", updated |-> FALSE]

\* const videoUrl = a || b || ... || null, then the handler's update: the
\* second server writes for a success event with a locator, the first server
\* writes "what we got" before it looks at the locator, api.js writes when
\* fetchHeyGenVideoUrl() returned the locator of a completed video
ProbePayload ==
  /\ call.fn = "probe" /\ call.pc = "parse"
  /\ LET At(f) == IF f \in DOMAIN call.body THEN call.body[f] ELSE ""
         Or(a, b) == IF a # "" THEN a ELSE b
         url == CASE cfg.api = "srvB" ->
                       Or(At("data.video_url"), Or(At("data.url"),
                         Or(At("event_data.video_url"), Or(At("event_data.url"),
                           At("video_url")))))
                  [] cfg.api = "srvA" ->
                       Or(At("data.video_url"), Or(At("data.url"),
                         Or(At("video_url"), At("url"))))
                  [] OTHER ->
                       Or(At("data.video_url"), Or(At("data.url"),
                         Or(At("data.videos[0].video_url"), At("data.videos[0].url"))))
     IN call' = [call EXCEPT !.pc = "done", !.url = url,
                   !.updated = CASE cfg.api = "srvB" -> call.done /\ url # ""
                                 [] cfg.api = "srvA" -> TRUE
                                 [] OTHER -> call.done /\ url # "" /\ StartsWithHttp(url)]
  /\ UNCHANGED <<cfg, storage, jobs, provider, workers, hooks, http, hist>>

SpecProbe == InitProbe /\ [][ProbePayload]_vars

(* ------------------------- lower-third slide-in ------------------------ *)
\* ltXExpr at instant t: if(lt(t, LT_ANIM_SECONDS), -w + t*speed, LT_X) with
\* speed = Math.ceil((LT_X + LT_W) / LT_ANIM_SECONDS) and w the width LT_W of
\* the lower-third image. Instants are in milliseconds, offsets in
\* thousandths of a pixel; c holds LT_X, LT_W and LT_ANIM_SECONDS (in ms)
LtX(c, t) ==
  LET speed == ((c.LT_X + c.LT_W) * 1000 + c.LT_ANIM_MS - 1) \div c.LT_ANIM_MS IN
  IF t < c.LT_ANIM_MS THEN t * speed - 1000 * c.LT_W ELSE 1000 * c.LT_X

\* one configuration of the lower third, the overlay at the first frame
InitSlide ==
  /\ cfg \in [api : {"api"}, secret : {SECRET}, wk : {"v2"}]
  /\ jobs = <<>>
  /\ provider = <<>>
  /\ workers = [w \in Workers |-> IdleWorker]
  /\ hooks = [h \in Hooks |-> IdleHook]
  /\ http = ""
  /\ storage = {}
  /\ hist = [qwins |-> [j \in 1..LoopJobs |-> 0],
             rwins |-> [j \in 1..LoopJobs |-> 0],
             arms |-> [j \in 1..LoopJobs |-> 0]]
  /\ \E c \in [LT_X : {60, 61}, LT_W : {780, 600}, LT_ANIM_MS : {400, 900, 3000}] :
       call = [fn |-> "slide", c |-> c, t |-> 0, x |-> LtX(c, 0), prev |-> LtX(c, 0)]

\* the overlay filter evaluates x at a later instant of the video
SlideFrame ==
  /\ call.fn = "slide"
  /\ \E t \in {1, call.c.LT_ANIM_MS \div 2, call.c.LT_ANIM_MS - 1, call.c.LT_ANIM_MS,
               call.c.LT_ANIM_MS + 1, 2 * call.c.LT_ANIM_MS} :
       /\ t > call.t
       /\ call' = [call EXCEPT !.t = t, !.x = LtX(call.c, t), !.prev = call.x]
  /\ UNCHANGED <<cfg, storage, jobs, provider, workers, hooks, http, hist>>

SpecSlide == InitSlide /\ [][SlideFrame]_vars

(* ---------------- fetchHeyGenVideoUrl(): the status poll ---------------- *)
\* maxAttempts of fetchHeyGenVideoUrl(): 12 in api.js, 6 in the earlier handler
MaxAttempts(api) == IF api = "p002" THEN 6 ELSE 12

\* one call of fetchHeyGenVideoUrl(), before its first request
InitPoll ==
  /\ cfg \in [api : {"api", "p002"}, secret : {SECRET}, wk : {"none"}]
  /\ jobs = <<>>
  /\ provider = <<>>
  /\ workers = [w \in Workers |-> IdleWorker]
  /\ hooks = [h \in Hooks |-> IdleHook]
  /\ http = ""
  /\ storage = {}
  /\ hist = [qwins |-> [j \in 1..LoopJobs |-> 0],
             rwins |-> [j \in 1..LoopJobs |-> 0],
             arms |-> [j \in 1..LoopJobs |-> 0]]
  /\ call = [fn |-> "poll", attempt |-> 0, result |-> "pending",
             resp |-> [net |-> "", status |-> "", path |-> "", url |-> ""]]

\* one pass of the for loop: the request is answered (net "ok"), answered with
\* an HTTP error, or fetch() throws; the answer holds a status and a locator
\* under data.video_url or data.url.  api.js catches the thrown error and
\* wants a locator that starts with http; the earlier handler has no try and
\* reads data.video_url only, returning whatever truthy value it holds.
PollAttempt ==
  /\ call.fn = "poll"
  /\ call.result = "pending"
  /\ call.attempt < MaxAttempts(cfg.api)
  /\ \E r \in [net : {"ok", "error", "thrown"},
               status : {"completed", "processing", "failed"},
               path : {"video_url", "url"},
               url : {"", VideoUrl(1), "/v1.mp4"}] :
       LET url == IF cfg.api = "p002" /\ r.path # "video_url" THEN "" ELSE r.url
           res == IF r.net = "thrown"
                    THEN IF cfg.api = "p002" THEN "throw" ELSE "pending"
                  ELSE IF r.net = "error" THEN "pending"
                  ELSE IF /\ r.status = "completed"
                          /\ url # ""
                          /\ cfg.api = "p002" \/ StartsWithHttp(url)
                    THEN url
                  ELSE "pending"
       IN call' = [call EXCEPT !.attempt = @ + 1, !.resp = r, !.result = res]
  /\ UNCHANGED <<cfg, storage, jobs, provider, workers, hooks, http, hist>>

\* the loop ran out of attempts: return null
PollExhausted ==
  /\ call.fn = "poll"
  /\ call.result = "pending"
  /\ call.attempt = MaxAttempts(cfg.api)
  /\ call' = [call EXCEPT !.result = "null"]
  /\ UNCHANGED <<cfg, storage, jobs, provider, workers, hooks, http, hist>>

\* every awaited request and every delay of the loop ends
SpecPoll ==
  /\ InitPoll
  /\ [][PollAttempt \/ PollExhausted]_vars
  /\ WF_vars(PollAttempt) /\ WF_vars(PollExhausted)

NextLegacy ==
  \/ \E email \in Emails : CreateJob(email)
  \/ WorkerStep(1)
  \/ \E v \in VideoIds : ProviderComplete(v)
  \/ LegacyHookStep(1)

SpecLegacy == InitLegacy /\ [][NextLegacy]_vars

(* ======================= properties of the pipeline ==================== *)
NonTerminal == {"queued", "processing", "heygen_requested", "rendering",
                "rendering_in_progress"}
Terminal == {"completed", "failed"}

\* the directed edges of the job state machine
Edges ==
  {<<"queued", "processing">>, <<"processing", "heygen_requested">>,
   <<"heygen_requested", "rendering">>, <<"rendering", "rendering_in_progress">>,
   <<"rendering_in_progress", "completed">>,
   <<"rendering_in_progress", "rendering">>}
  \cup {<<s, "failed">> : s \in NonTerminal}

\* the step is one of webhook request h
StepOfHook(h) == hooks'[h] # hooks[h]

\* C1: every change of a job's status follows an edge of the state machine
\* (queued->processing->heygen_requested->rendering->rendering_in_progress->
\* completed, the un-claim back to rendering, non-terminal->failed).
C1_StatusFollowsEdges ==
  [][\A j \in JobIds :
       jobs'[j].status # jobs[j].status
         => <<jobs[j].status, jobs'[j].status>> \in Edges]_vars

\* C2: the claim is exclusive: a job is won from queued at most once, and it is
\* won from rendering at most once for each time it was put into rendering, so
\* of the workers attempting the same claim only one gets the row.
C2_ClaimExclusive ==
  \A j \in JobIds :
    /\ hist.qwins[j] <= 1
    /\ hist.rwins[j] <= hist.arms[j]
    /\ Cardinality({w \in Workers : workers[w].job = j
                      /\ workers[w].pc \in {"script", "scriptEnd", "heygen", "saveQ"}}) <= 1

\* two workers attempted the rendering claim of the same job: one holds the row
\* and composes, the other got no row and ended its cycle
C2_Witness ==
  \E w1, w2 \in Workers :
    /\ w1 # w2
    /\ workers[w1].job # 0
    /\ workers[w1].job = workers[w2].job
    /\ workers[w1].pc = "compose"
    /\ workers[w2].pc = "sleep" /\ workers[w2].out = "lostRender"
    /\ jobs[workers[w1].job].status = "rendering_in_progress"
    /\ hist.qwins[workers[w1].job] = 1 /\ hist.rwins[workers[w1].job] = 1

\* C3: in the handlers of api.js and server.js, a callback delivered after an
\* earlier delivery already moved the job to rendering is a no-op: it changes
\* neither the status nor any other field, whatever the worker did in between.
C3_SecondDeliveryNoOp ==
  [][\A h \in Hooks :
       (cfg.api \in {"api", "srvB"} /\ hooks[h].late /\ StepOfHook(h))
         => jobs' = jobs]_vars

\* C4: the webhook's write changes a job only if the job's status is
\* heygen_requested at the moment of the write.
C4_WriteOnlyWhenRequested ==
  [][\A h \in Hooks : \A j \in JobIds :
       (hooks[h].pc = "update" /\ StepOfHook(h) /\ jobs[j].status # "heygen_requested")
         => jobs'[j] = jobs[j]]_vars

\* C5: whatever the interleaving of callbacks and worker steps, a job is claimed
\* into rendering_in_progress (Phase 2 started) at most once, and no webhook
\* step moves it back from rendering_in_progress, completed or failed to
\* rendering.
C5_Phase2AtMostOnce ==
  [][\A j \in JobIds :
       /\ hist'.rwins[j] <= 1
       /\ \A h \in Hooks :
            (StepOfHook(h)
               /\ jobs[j].status \in {"rendering_in_progress", "completed", "failed"})
              => jobs'[j].status # "rendering"]_vars

\* C6: in the handlers of api.js and server.js, with a secret configured, a
\* callback whose token is missing or wrong performs no write to any job.
C6_BadTokenNoWrite ==
  [][\A h \in Hooks :
       (cfg.api \in {"api", "srvB"} /\ cfg.secret # "" /\ hooks[h].pc # "idle"
          /\ hooks[h].token # cfg.secret /\ StepOfHook(h)) => jobs' = jobs]_vars

\* C7: every response of the webhook endpoint is 200 {ok:true}.
C7_AlwaysOk == http \in {"", "200 ok:true"}

\* C8: in the handlers of api.js and server.js, the success response is sent
\* before any job-store read or write and before any provider call of that
\* delivery.
C8_AckBeforeWork ==
  [][\A h \in Hooks :
       (cfg.api \in {"api", "srvB"} /\ hooks[h].pc \in {"select", "poll", "update"}
          /\ StepOfHook(h)) => hooks[h].resp # ""]_vars

\* C9: final_public_url is non-null if and only if status is completed.
C9_FinalIffCompleted ==
  \A j \in JobIds : (jobs[j].final_public_url # "") <=> (jobs[j].status = "completed")

\* C10: completed and failed are terminal: once there, the status never changes.
C10_TerminalStays ==
  [][\A j \in JobIds :
       jobs[j].status \in Terminal => jobs'[j].status = jobs[j].status]_vars

\* C11: a failure of the completion email after the asset was published does
\* not fail the job: when the worker has handled that failure the job is still
\* completed, with its final_public_url and no error recorded.
C11_EmailFailureKeepsCompleted ==
  [][\A w \in Workers :
       (workers[w].pc = "fail" /\ workers[w].err = EMAIL_ERROR
          /\ workers'[w] # workers[w])
         => LET j == workers[w].job IN
            /\ jobs'[j].status = "completed"
            /\ jobs'[j].final_public_url # ""
            /\ jobs'[j].error = ""]_vars

\* the messages Phase 1 leaves in the error column
Phase1Recorded == {Slice(m, ERR_MAX) : m \in ScriptErrors \cup HeygenErrors}

C13_RenderFailureFailsJob ==
  /\ \A j \in JobIds :
       jobs[j].error = FFMPEG_ERROR
         => jobs[j].status = "failed" /\ jobs[j].final_public_url = ""
  /\ \A w \in Workers :
       (workers[w].pc = "fail" /\ workers[w].err = FFMPEG_ERROR)
         => /\ jobs[workers[w].job].status # "completed"
            /\ jobs[workers[w].job].final_public_url = ""

\* C14: Phase 2 never composes a job whose locked row has no heygen_video_url,
\* and a job locked without it is not left in rendering_in_progress: the worker
\* that locked it is about to write it back to rendering.
C14_NoLocatorNoCompose ==
  /\ \A w \in Workers :
       workers[w].pc \in {"compose", "upload", "saveDone", "email"}
         => workers[w].locked.heygen_video_url # ""
  /\ \A j \in JobIds :
       (jobs[j].status = "rendering_in_progress" /\ jobs[j].heygen_video_url = "")
         => \E w \in Workers : workers[w].pc = "unclaim" /\ workers[w].job = j

\* a delivery that passed the token check for an existing job in
\* heygen_requested and whose payload is not complete
Incomplete(h) ==
  /\ hooks[h].pc # "idle"
  /\ hooks[h].jobId \in JobIds
  /\ jobs[hooks[h].jobId].status = "heygen_requested"
  /\ \/ cfg.api = "srvA" /\ (hooks[h].status # "completed" \/ hooks[h].videoUrl = "")
     \/ cfg.api = "api" /\ hooks[h].pc = "poll" /\ hooks'[h].pc = "idle"

\* C15: a step of a valid-token delivery whose payload is not complete (status
\* other than completed, or no video locator) leaves every job as it was; in
\* particular the job stays heygen_requested.
C15_IncompleteNoWrite ==
  [][\A h \in Hooks : (StepOfHook(h) /\ Incomplete(h)) => jobs' = jobs]_vars

\* C16: a delivery naming a job id that does not exist is dropped when the row
\* is looked up: no job is created and no existing job is modified.
C16_UnknownJobNoWrite ==
  [][\A h \in Hooks :
       (cfg.api = "api" /\ StepOfHook(h) /\ hooks[h].pc # "idle"
          /\ hooks[h].jobId \notin JobIds)
         => jobs' = jobs /\ hooks'[h] = IdleHook]_vars

\* a valid-token delivery for an id past the last job is at the row lookup while
\* another job waits for its avatar video
C16_Witness ==
  \E h \in Hooks :
    /\ cfg.api = "api"
    /\ hooks[h].pc = "select"
    /\ hooks[h].jobId \notin JobIds
    /\ \E j \in JobIds : jobs[j].status = "heygen_requested"

\* the columns of the request: nothing after the insert writes them
Inputs(row) ==
  [walkthrough_url |-> row.walkthrough_url, avatar_type |-> row.avatar_type,
   max_seconds |-> row.max_seconds, email |-> row.email]

\* C17: no step removes a job or changes its walkthrough_url, avatar_type,
\* max_seconds or email, and a job whose status is completed has a
\* final_public_url; so a completed job carries the inputs of its creation.
C17_InputsImmutable ==
  [][\A j \in JobIds :
       /\ j \in DOMAIN jobs'
       /\ Inputs(jobs'[j]) = Inputs(jobs[j])
       /\ jobs'[j].status = "completed" => jobs'[j].final_public_url # ""]_vars

\* a job went through both phases and the callback and is completed
C17_Witness ==
  \E j \in JobIds :
    /\ jobs[j].status = "completed"
    /\ jobs[j].final_public_url = PublicUrl(j)
    /\ jobs[j].heygen_video_url # ""
    /\ Inputs(jobs[j]) = Inputs(NewRow(WALK_URL, 20, "female", "agent@example.com"))

\* C20: a worker does not enter the idle sleep at the end of a cycle in which
\* Phase 1 ran, whether it ended in heygen_requested or in failed.
C20_NoSleepAfterPhase1 ==
  [][\A w \in Workers :
       (workers[w].pc # "sleep" /\ workers'[w].pc = "sleep")
         => /\ workers[w].pc # "saveQ"
            /\ ~(workers[w].pc = "fail" /\ workers[w].err \in ScriptErrors \cup HeygenErrors)]_vars

\* C19: after any error of a cycle (a phase, a lock, a query, failJob itself)
\* the worker is back at the top of loop() with nothing kept from the failed
\* cycle, it polls again and again, and every queued job is claimed by a
\* later cycle whatever happened to the jobs before it.
C19_LoopSurvives ==
  /\ \A w \in Workers :
       /\ (workers[w].pc = "fail") ~> (workers[w] = IdleWorker)
       /\ []<>(workers[w].pc = "poll")
  /\ \A j \in 1..LoopJobs :
       (jobs[j].status = "queued") ~> (jobs[j].status # "queued")

\* the first job failed and a later cycle of the same worker holds the second
C19_Witness ==
  \E w \in Workers :
    /\ jobs[1].status = "failed"
    /\ jobs[1].error # ""
    /\ workers[w].job = 2
    /\ workers[w].pc = "script"
    /\ jobs[2].status = "processing"

Requested(j) ==
  j \in JobIds /\ jobs[j].status = "heygen_requested" /\ jobs[j].heygen_video_id # 0
Rendering(j) ==
  /\ j \in JobIds /\ jobs[j].status = "rendering"
  /\ jobs[j].heygen_video_id # 0
  /\ jobs[j].heygen_video_url = VideoUrl(jobs[j].heygen_video_id)
Completed(j) ==
  /\ j \in JobIds /\ jobs[j].status = "completed"
  /\ jobs[j].final_public_url # ""
  /\ jobs[j].heygen_video_url = VideoUrl(jobs[j].heygen_video_id)

\* C18: on the happy path a queued job reaches heygen_requested with its
\* heygen_video_id, from there rendering with the delivered heygen_video_url,
\* and from there completed with a final_public_url.
C18_HappyPathCompletes ==
  \A j \in 1..MaxJobs :
    /\ (j \in JobIds /\ jobs[j].status = "queued") ~> Requested(j)
    /\ Requested(j) ~> Rendering(j)
    /\ Rendering(j) ~> Completed(j)

\* the job was claimed once in each phase, armed once by the callback, and is completed
C18_Witness ==
  \E j \in JobIds :
    /\ Completed(j)
    /\ hist.qwins[j] = 1 /\ hist.arms[j] = 1 /\ hist.rwins[j] = 1

\* C21: the queued query hands the worker the queued job created first; the
\* worker looks for a rendering job only when no job is queued, and is then
\* handed the rendering job created first.
C21_OldestFirst ==
  [][\A w \in Workers :
       /\ (workers[w].pc = "poll" /\ workers'[w].pc = "claimQ")
            => workers'[w].job = Oldest(jobs, "queued")
       /\ (workers[w].pc = "poll" /\ workers'[w].pc = "pollR")
            => Oldest(jobs, "queued") = 0
       /\ (workers[w].pc = "pollR" /\ workers'[w].pc = "claimR")
            => workers'[w].job = Oldest(jobs, "rendering")]_vars

\* the lock of worker w matches no row: the job is no longer in the status
\* the worker selected it in
LosesClaim(w) ==
  \/ workers[w].pc = "claimQ" /\ ~ClaimHolds(jobs, workers[w].job, "queued")
  \/ workers[w].pc = "claimR" /\ ~ClaimHolds(jobs, workers[w].job, "rendering")

\* C22: a worker whose lock matches no row (and is answered without an error)
\* writes nothing and ends its cycle without an error and without a phase step;
\* the sleep that follows writes nothing either.
C22_LoserWritesNothing ==
  [][\A w \in Workers :
       /\ (LosesClaim(w) /\ workers'[w] # workers[w] /\ workers'[w].err # "lock failed")
            => /\ jobs' = jobs
               /\ workers'[w].pc = "sleep"
               /\ workers'[w].err = ""
               /\ workers'[w].out \in {"lost", "lostRender"}
       /\ (workers[w].out \in {"lost", "lostRender"} /\ workers'[w] # workers[w])
            => jobs' = jobs /\ workers'[w] = IdleWorker]_vars

\* a worker lost the Phase-1 lock to the other one, which is inside Phase 1
C22_Witness ==
  \E w \in Workers, v \in Workers :
    /\ workers[w].out = "lost"
    /\ workers[w].pc = "sleep"
    /\ workers[v].pc = "script"
    /\ workers[v].job = workers[w].job
    /\ jobs[workers[w].job].status = "processing"
    /\ jobs[workers[w].job].error = ""

\* C23: with no secret configured no token, present or not, is rejected, and
\* with one configured the correct token is not; a delivery that passes the
\* check is handled from there on without regard to its token.
C23_PermissiveMode ==
  [][/\ cfg.secret = "" => \A t \in Tokens : ~TokenRejected(t)
     /\ cfg.secret # "" => ~TokenRejected(cfg.secret)
     /\ \A h \in Hooks :
          (cfg.api = "api" /\ hooks[h].pc = "idle" /\ hooks'[h].pc # "idle")
            => /\ ~TokenRejected(hooks'[h].token)
               /\ [hooks'[h] EXCEPT !.token = ""] =
                    [IdleHook EXCEPT !.pc = "select", !.jobId = hooks'[h].jobId,
                                     !.resp = "200 ok:true",
                                     !.late = Delivered({hooks'[h].jobId})]]_vars

\* no secret is configured and a delivery with a token that matches nothing is
\* about to write the locator
C23_Witness ==
  \E h \in Hooks :
    /\ cfg.api = "api"
    /\ cfg.secret = ""
    /\ hooks[h].token = "wrong"
    /\ hooks[h].pc = "update"
    /\ hooks[h].videoUrl # ""

\* the positions inside a phase at which its scratch files may be on disk
FilePcs == {"scriptEnd", "upload", "saveDone", "email", "renderEnd"}

C25_MaxBytesEnforced ==
  /\ call.written <= call.maxBytes
  /\ call.downloaded > call.maxBytes => call.pc = "failed"
  /\ call.err = "Download failed" => call.written = 0

\* C27: the avatar-provider request is not retried within a phase: one Phase
\* 1 execution sends at most one generate request to the provider, whatever
\* the outcome of the request
C27_OneProviderRequest == \A w \in Workers : workers[w].sent <= 1

\* C28: the background normalization produces exactly the fixed 1080x1920
\* canvas by a uniform scale-to-fit (the scaled frame is no wider than 1080 and
\* no higher than 1920, touches one of the two, and keeps the input's aspect
\* ratio up to the rounding of one pixel) plus centered padding; no column or
\* row of the frame is cropped
C28_CanvasFit ==
  (call.fn = "normalize" /\ call.pc = "done") =>
    LET d == call.w * call.ih - call.h * call.iw
        big == IF call.iw > call.ih THEN call.iw ELSE call.ih IN
    /\ call.ow = CANVAS_W /\ call.oh = CANVAS_H
    /\ call.w <= CANVAS_W /\ call.h <= CANVAS_H
    /\ call.w = CANVAS_W \/ call.h = CANVAS_H
    /\ 2 * d <= big /\ -2 * d <= big
    /\ call.x = (CANVAS_W - call.w) \div 2 /\ call.y = (CANVAS_H - call.h) \div 2
    /\ call.lostW = 0 /\ call.lostH = 0

\* C29: a job is marked completed only after the upload of the final asset
\* succeeded: whenever a job's status is completed, its final_public_url is
\* the public locator of the object renders/final-<id>.mp4, and that object
\* was written to the bucket
C29_CompletedAfterUpload ==
  \A j \in DOMAIN jobs :
    jobs[j].status = "completed" =>
      jobs[j].final_public_url = PublicUrl(j) /\ j \in storage

\* C30: whenever a job's status is heygen_requested, its avatar request id
\* (heygen_video_id) is set and its avatar video locator (heygen_video_url)
\* is still unset
C30_RequestedHasIdNoUrl ==
  \A j \in DOMAIN jobs :
    jobs[j].status = "heygen_requested" =>
      jobs[j].heygen_video_id # 0 /\ jobs[j].heygen_video_url = ""

\* C26: the fetch retry loop is bounded: it makes at most the configured
\* number of attempts, hands the first response to its caller, raises an
\* error once every attempt has failed, and always comes to an end
C26_BoundedRetry ==
  /\ [](call.fn = "downloadToFile" =>
          LET threw == call.pc = "failed" /\ call.err = "fetch failed"
              made == IF call.pc = "fetch" \/ threw THEN call.attempt - 1 ELSE call.attempt
          IN /\ made <= call.retries
             /\ call.pc \in {"resp", "read", "done"} => call.attempt \in 1..call.retries
             /\ threw => made = call.retries)
  /\ <>(call.pc # "fetch")

\* every attempt of a budget of three failed and the caller got the error
C26_Witness ==
  /\ call.fn = "downloadToFile" /\ call.retries = FETCH_RETRIES
  /\ call.pc = "failed" /\ call.err = "fetch failed" /\ call.attempt = FETCH_RETRIES + 1

\* C31: last_error (the error column) is set only on a transition to failed:
\* in every reachable state a job with a non-empty error has status failed
C31_ErrorOnlyWhenFailed ==
  \A j \in DOMAIN jobs : jobs[j].error # "" => jobs[j].status = "failed"

\* C36: a worker writes status failed only to a job whose claim it won in
\* that cycle: a worker whose lock update ended in an error never held the
\* claim, and its failJob does not touch the job
C36_FailOnlyOwnClaim ==
  [][\A w \in Workers :
       (workers[w].pc = "fail" /\ workers'[w] # workers[w] /\ jobs' # jobs)
         => workers[w].err # "lock failed"]_vars

\* C32: a job left in processing or rendering_in_progress by a worker that
\* crashed is never reclaimed: no step of another worker and no webhook
\* delivery changes its status
C32_CrashedJobStays ==
  [][\A w \in Workers :
       LET j == workers[w].job IN
       (workers[w].pc = "crashed"
          /\ jobs[j].status \in {"processing", "rendering_in_progress"})
         => jobs'[j].status = jobs[j].status]_vars

\* C33: callback round trip: for every job id and every configured secret the
\* token and the job_id the handler reads from the callback locator are the
\* secret and the job id the worker put in, so the callback is authorized and
\* resolves to that job
C33_CallbackRoundTrip ==
  (call.fn = "callback" /\ call.pc = "read") =>
    /\ call.token = cfg.secret
    /\ ~TokenRejected(call.token)
    /\ call.job_id = ToString(call.jobId)

\* C34: payload probing: the locator the handler extracts is the value of the
\* first path, in the fixed order, that is present in the payload; when no
\* path is present the result is empty and no job is updated
C34_FirstShapeWins ==
  (call.fn = "probe" /\ call.pc = "done") =>
    LET order == ProbeOrder(cfg.api)
        hits == {i \in DOMAIN order : order[i] \in DOMAIN call.body} IN
    IF hits = {}
    THEN call.url = "" /\ ~call.updated
    ELSE \E i \in hits : /\ \A k \in hits : i <= k
                         /\ call.url = call.body[order[i]]

\* C35: lower-third slide-in: for every configured LT_X, LT_W and
\* LT_ANIM_SECONDS the horizontal offset starts fully off-canvas at t = 0, is
\* non-decreasing in t, never exceeds the resting position LT_X, and equals
\* LT_X at every instant at or after LT_ANIM_SECONDS
C35_SlideIn ==
  call.fn = "slide" =>
    /\ call.t = 0 => call.x + 1000 * call.c.LT_W <= 0
    /\ call.prev <= call.x
    /\ call.x <= 1000 * call.c.LT_X
    /\ call.t >= call.c.LT_ANIM_MS => call.x = 1000 * call.c.LT_X

\* C37: no completion is lost: once the provider has accepted the avatar
\* request of a job, whose completion callback it delivers with the valid
\* token, the job eventually reaches rendering, also when the callback is
\* handled before the worker has stored the request id
C37_NoCompletionLost ==
  \A j \in 1..MaxJobs :
    (\E v \in DOMAIN provider : provider[v].job = j) ~> (hist.arms[j] >= 1)

\* C38: a rendering job without heygen_video_url does not block the others:
\* every rendering job that has its locator is eventually claimed for Phase 2,
\* also when a job without locator is the oldest one in rendering
C38_NoHeadOfLineBlock ==
  \A j \in 1..LoopJobs :
    (jobs[j].status = "rendering" /\ jobs[j].heygen_video_url # "")
      ~> (hist.rwins[j] >= 1)

\* C39: the provider status poll of the webhook handler terminates: it makes
\* at most maxAttempts status requests, returns a locator only when the
\* provider reported status completed with a locator starting with http, and
\* otherwise returns null after the last attempt, whatever mix of HTTP errors,
\* thrown errors and non-completed statuses it sees
C39_PollTerminates ==
  /\ <>(call.fn = "poll" /\ call.result # "pending")
  /\ [](call.fn = "poll" =>
          /\ call.attempt <= MaxAttempts(cfg.api)
          /\ call.result \notin {"pending", "null"} =>
               /\ call.resp.net = "ok"
               /\ call.resp.status = "completed"
               /\ StartsWithHttp(call.resp.url)
               /\ call.result = call.resp.url
          /\ call.result = "null" => call.attempt = MaxAttempts(cfg.api))

TypeOK ==
  /\ Len(jobs) <= LoopJobs
  /\ \A w \in Workers : workers[w].job \in 0..LoopJobs
====
